---------------------------- MODULE Spec2Model ----------------------------
(***************************************************************************)
(* Model of the image alt-text extension's request queue, description      *)
(* client (retry with backoff), deduplication tracker and orchestrator.    *)
(*                                                                         *)
(* Strings are sequences of one-character strings.  Time is kept by        *)
(* relative timers: a timer holds the milliseconds left before its         *)
(* callback may run (setTimeout never fires early, it may fire late), and  *)
(* Tick lets time pass.                                                    *)
(***************************************************************************)
EXTENDS Integers, Sequences, FiniteSets, TLC

\* ------------------------------------------------------------------------
\* Bounds of the model
\* ------------------------------------------------------------------------
MaxTasks == 3      \* add() calls made on the queue in one behaviour
MaxCalls == 3      \* processSingleImage calls made in one behaviour
BatchLen == 3      \* images in the batch passed to processImages

\* ------------------------------------------------------------------------
\* Program constants
\* ------------------------------------------------------------------------
MAX_CONCURRENT_REQUESTS == 3
BATCH_DELAY_MS == 500
MAX_RETRIES == 3
REQUEST_TIMEOUT_MS == 30000

\* Amounts of time one Tick lets pass, for the queue and for the client
Deltas == {500}
ApiDeltas == {1000, 30000}

Max(a, b) == IF a >= b THEN a ELSE b
Min(a, b) == IF a <= b THEN a ELSE b

\* A timer after d milliseconds have passed (NoTimer = not armed)
NoTimer == 0 - 1
TimerAfter(r, d) == IF r = NoTimer THEN NoTimer ELSE Max(0, r - d)
\* A stopwatch (time elapsed since an event, NoTimer = no event yet), capped
WatchAfter(e, d, cap) == IF e = NoTimer THEN NoTimer ELSE Min(cap, e + d)

Descriptions == {"d1", "d2"}

\* ------------------------------------------------------------------------
\* Strings (sequences of characters) and the tracker's hash
\* ------------------------------------------------------------------------
DecDigit == <<"0", "1", "2", "3", "4", "5", "6", "7", "8", "9">>

RECURSIVE Decimal(_)
\* `${n}` for n >= 0
Decimal(n) ==
  IF n < 10 THEN <<DecDigit[n + 1]>>
  ELSE Append(Decimal(n \div 10), DecDigit[(n % 10) + 1])

\* str.charCodeAt(i) for the characters that occur in the image keys
CharCode(c) ==
  CASE c = "0" -> 48 [] c = "1" -> 49 [] c = "2" -> 50 [] c = "3" -> 51
    [] c = "4" -> 52 [] c = "5" -> 53 [] c = "6" -> 54 [] c = "7" -> 55
    [] c = "8" -> 56 [] c = "9" -> 57
    [] c = ":" -> 58 [] c = "/" -> 47 [] c = "_" -> 95 [] c = "," -> 44
    [] c = ";" -> 59
    [] c = "A" -> 65 [] c = "B" -> 66 [] c = "C" -> 67
    [] c = "a" -> 97 [] c = "d" -> 100 [] c = "h" -> 104 [] c = "p" -> 112
    [] c = "t" -> 116 [] c = "x" -> 120

Digit36 == <<"0", "1", "2", "3", "4", "5", "6", "7", "8", "9", "a", "b",
             "c", "d", "e", "f", "g", "h", "i", "j", "k", "l", "m", "n",
             "o", "p", "q", "r", "s", "t", "u", "v", "w", "x", "y", "z">>

RECURSIVE Magnitude36(_)
\* The base-36 digits of |n|, n a 32-bit integer of either sign (no digits for 0)
Magnitude36(n) ==
  IF n = 0 THEN <<>>
  ELSE LET d == IF n > 0 THEN n % 36 ELSE (36 - (n % 36)) % 36
           q == IF n > 0 THEN n \div 36 ELSE (n + d) \div 36
       IN  Append(Magnitude36(q), Digit36[d + 1])

\* n.toString(36)
ToString36(n) ==
  IF n = 0 THEN <<"0">>
  ELSE IF n < 0 THEN <<"-">> \o Magnitude36(n) ELSE Magnitude36(n)

\* One round of simpleHash on a 32-bit value kept as two 16-bit halves:
\* ((hash << 5) - hash) + char, then hash & hash
HashRound(hl, code) ==
  LET lo == 31 * hl.lo + code
      hi == 31 * hl.hi + (lo \div 65536)
  IN  [hi |-> hi % 65536, lo |-> lo % 65536]

RECURSIVE HashFold(_, _, _)
HashFold(str, i, hl) ==
  IF i > Len(str) THEN hl
  ELSE HashFold(str, i + 1, HashRound(hl, CharCode(str[i])))

\* The halves as the signed 32-bit integer they hold
Int32(hl) ==
  IF hl.hi >= 32768 THEN (hl.hi - 65536) * 65536 + hl.lo
  ELSE hl.hi * 65536 + hl.lo

\* simpleHash(str)
SimpleHash(str) == ToString36(Int32(HashFold(str, 1, [hi |-> 0, lo |-> 0])))

\* The key getImageHash builds: `${src}_${naturalWidth}x${naturalHeight}`
ImageKey(res) == res.src \o <<"_">> \o Decimal(res.w) \o <<"x">> \o Decimal(res.h)

\* ------------------------------------------------------------------------
\* Page: image elements and the resources their src can name
\* ------------------------------------------------------------------------
UrlAa == <<"h", "t", "t", "p", ":", "/", "/", "h", "/", "A", "a">>
UrlBB == <<"h", "t", "t", "p", ":", "/", "/", "h", "/", "B", "B">>
UrlC  == <<"h", "t", "t", "p", ":", "/", "/", "h", "/", "C">>

\* src with the natural dimensions of the loaded picture.  The keys of the
\* first two have the same simpleHash.
Resources == {[src |-> UrlAa, w |-> 100, h |-> 100],
              [src |-> UrlBB, w |-> 100, h |-> 100],
              [src |-> UrlC, w |-> 200, h |-> 100]}

Imgs == {"img1", "img2"}

\* Converted payloads (data URLs): length of the string, index of its comma,
\* number of "=" in it.  23 characters of "data:image/jpeg;base64," come first.
Payloads == {[length |-> 23 + 4, comma |-> 22, padding |-> 0],
             [length |-> 23 + 6990507, comma |-> 22, padding |-> 1],
             [length |-> 23 + 6990507, comma |-> 22, padding |-> 0]}

VARIABLES
  \* RequestQueue
  concurrency,     \* this.concurrency
  queue,           \* this.queue: pending tasks, head first
  active,          \* this.active
  stats,           \* this.stats: total, success, failed
  nAdded,          \* number of add() calls so far; tasks are 1..nAdded
  promise,         \* per task: state of the promise add() returned
  proc,            \* per task: the process() call that dispatched it
  attempts,        \* per task: attempts its executing thunk has made
  \* observers of the queue (history)
  dispatchOrder,   \* tasks in the order their thunks began execution
  retried,         \* outcomes of the thunks that settled after a retry
  dropped,         \* tasks clear() discarded while pending
  \* page
  imgRes,          \* per element: src and natural dimensions
  imgAlt,          \* per element: alt
  imgTitle,        \* per element: title
  \* ProcessedImageTracker
  processedImages, \* WeakMap element -> description set
  processedHashes, \* Set of hashes
  inFlight,        \* Set of hashes
  \* processSingleImage calls
  nCalls,          \* number of calls so far; calls are 1..nCalls
  run,             \* per call: its element, where it is, how it ended
  taskRun,         \* per task: the call that submitted it (0 = another caller)
  markedIdents,    \* resources markProcessed has succeeded for (history)
  records,         \* per resource: the description it was marked with (history)
  last,            \* what the latest step of a call did (history)
  \* sendImageToAPI, one call
  maxRetries,      \* its maxRetries argument
  payloadOk,       \* whether base64ToBlob accepts its base64 argument
  apiPc,           \* where the call is
  attempt,         \* the loop variable
  abortTimer,      \* the timeout timer of sendWithTimeout
  backoffTimer,    \* the timer of the backoff sleep
  lastError,       \* lastError.message
  apiResult,       \* what the call returned or the message it threw
  response,        \* the response whose body is being read
  \* observers of the call (history)
  attemptsMade,    \* passes of the loop body begun
  sleeps,          \* backoff sleeps begun
  sinceFailure,    \* time since the latest attempt failed
  startGap,        \* sinceFailure as it was when the latest attempt began
  lastCause,       \* what ended the latest failed attempt
  onlyTransient,   \* every failed attempt was a timeout, a 5xx or the network
  seen4xx,         \* some attempt got a 4xx response
  \* processImages, one call
  batch,           \* per image of the batch: its processSingleImage promise
  batchPromise,    \* state of the promise processImages returned
  \* convertImageToBase64, one call
  convImg,         \* the element: its src, whether it is loaded
  convPc,          \* where the call is
  tried,           \* the strategies attempted, in order (history)
  fetched,         \* the response the direct fetch got
  convOut,         \* what the call returned or threw
  \* background script and requestBackgroundConversion, one message
  bgMsg,           \* the message runtime.onMessage delivered
  bgPc,            \* where handleMessage is
  bgFetched,       \* the response fetchImageAsBase64 got
  bgReply,         \* what handleMessage resolved with
  reqPc,           \* where requestBackgroundConversion is
  reqOut           \* what it resolved with or the message it rejected with

qvars == <<concurrency, queue, active, stats, nAdded, promise, proc, attempts,
           dispatchOrder, retried, dropped>>

pvars == <<imgRes, imgAlt, imgTitle>>
tvars == <<processedImages, processedHashes, inFlight>>
ovars == <<nCalls, run, taskRun, markedIdents, records, last>>

avars == <<maxRetries, payloadOk, apiPc, attempt, abortTimer, backoffTimer,
           lastError, apiResult, response, attemptsMade, sleeps, sinceFailure,
           startGap, lastCause, onlyTransient, seen4xx>>

bvars == <<batch, batchPromise>>
cvars == <<convImg, convPc, tried, fetched, convOut>>
mvars == <<bgMsg, bgPc, bgFetched, bgReply, reqPc, reqOut>>
xvars == <<bvars, cvars, mvars>>

vars == <<qvars, pvars, tvars, ovars, avars, xvars>>

Tasks == 1..MaxTasks

\* No processImages call and no convertImageToBase64 call
BatchUnused ==
  /\ batch = <<>>
  /\ batchPromise = "none"

NoFetch == [status |-> 0, type |-> <<>>]
NoOut == [kind |-> "none", via |-> "", value |-> <<>>]

ConvUnused ==
  /\ convImg = [src |-> <<>>, loaded |-> FALSE]
  /\ convPc = "unused"
  /\ tried = <<>>
  /\ fetched = NoFetch
  /\ convOut = NoOut

\* No message to the background script
NullMessage == [object |-> FALSE, type |-> <<>>, url |-> <<>>]
NoReply ==
  [present |-> FALSE, keys |-> {}, success |-> FALSE, base64 |-> <<>>,
   error |-> <<>>]

ProxyUnused ==
  /\ bgMsg = NullMessage
  /\ bgPc = "unused"
  /\ bgFetched = NoFetch
  /\ bgReply = NoReply
  /\ reqPc = "unused"
  /\ reqOut = NoOut

\* ------------------------------------------------------------------------
\* RequestQueue
\* ------------------------------------------------------------------------
NoProc == [st |-> "none", timer |-> NoTimer]

QueueInit ==
  /\ concurrency \in 1..MAX_CONCURRENT_REQUESTS
  /\ queue = <<>>
  /\ active = 0
  /\ stats = [total |-> 0, success |-> 0, failed |-> 0]
  /\ nAdded = 0
  /\ promise = [t \in Tasks |-> "unborn"]
  /\ proc = [t \in Tasks |-> NoProc]
  /\ attempts = [t \in Tasks |-> 0]
  /\ dispatchOrder = <<>>
  /\ retried = {}
  /\ dropped = {}

delayMs == BATCH_DELAY_MS

\* process(): the early return of line 59, negated
CanDispatchOff(a, q) == ~(a > concurrency \/ Len(q) = 0)
CanDispatch(a, q) == ~(a >= concurrency \/ Len(q) = 0)

\* this.queue.shift(): the task taken and the tasks left
QueueShiftLast(q) == [task |-> q[Len(q)], rest |-> SubSeq(q, 1, Len(q) - 1)]
QueueShift(q) == [task |-> Head(q), rest |-> Tail(q)]

\* this.active-- in the finally block
ReleaseSlotNever(a) == a
ReleaseSlot(a) == a - 1

\* process() up to its await: on queue q, active a, process calls pr and
\* attempt counts at.  A dispatched thunk begins execution in the same step.
Process(q, a, pr, at) ==
  IF CanDispatch(a, q)
  THEN LET s == QueueShift(q) IN
       /\ active' = a + 1
       /\ queue' = s.rest
       /\ proc' = [pr EXCEPT ![s.task] = [st |-> "task", timer |-> NoTimer]]
       /\ attempts' = [at EXCEPT ![s.task] = 1]
       /\ dispatchOrder' = Append(dispatchOrder, s.task)
  ELSE /\ active' = a
       /\ queue' = q
       /\ proc' = pr
       /\ attempts' = at
       /\ UNCHANGED dispatchOrder

\* add(task) as it would be without stats.total++
QueueAddUncounted(t) ==
  /\ nAdded' = t
  /\ promise' = [promise EXCEPT ![t] = "pending"]
  /\ Process(Append(queue, t), active, proc, attempts)
  /\ UNCHANGED <<concurrency, stats, retried, dropped>>

\* add(task): push, count, process()
QueueAdd(t) ==
  /\ stats' = [stats EXCEPT !.total = @ + 1]
  /\ nAdded' = t
  /\ promise' = [promise EXCEPT ![t] = "pending"]
  /\ Process(Append(queue, t), active, proc, attempts)
  /\ UNCHANGED <<concurrency, retried, dropped>>

\* The counters after a thunk settled: stats.success++ or stats.failed++
CountOutcomeBoth(s, ok) ==
  IF ok THEN [s EXCEPT !.success = @ + 1]
        ELSE [s EXCEPT !.success = @ + 1, !.failed = @ + 1]
CountOutcome(s, ok) ==
  IF ok THEN [s EXCEPT !.success = @ + 1] ELSE [s EXCEPT !.failed = @ + 1]

\* The same without the pacing sleep: count, settle, release, process()
QueueSettleNoPacing(t, ok) ==
  /\ proc[t].st = "task"
  /\ stats' = CountOutcome(stats, ok)
  /\ promise' = [promise EXCEPT ![t] = IF ok THEN "resolved" ELSE "rejected"]
  /\ retried' = IF attempts[t] > 1
                THEN retried \cup {IF ok THEN "resolved" ELSE "rejected"}
                ELSE retried
  /\ Process(queue, ReleaseSlot(active),
             [proc EXCEPT ![t] = [st |-> "done", timer |-> NoTimer]],
             [attempts EXCEPT ![t] = 0])
  /\ UNCHANGED <<concurrency, nAdded, dropped>>

\* The thunk of task t settles and the process() call awaiting it resumes:
\* count, settle the promise, release the slot, then pace or process().
QueueSettle(t, ok) ==
  /\ proc[t].st = "task"
  /\ stats' = CountOutcome(stats, ok)
  /\ promise' = [promise EXCEPT ![t] = IF ok THEN "resolved" ELSE "rejected"]
  /\ retried' = IF attempts[t] > 1
                THEN retried \cup {IF ok THEN "resolved" ELSE "rejected"}
                ELSE retried
  /\ IF Len(queue) > 0
     THEN /\ active' = ReleaseSlot(active)
          /\ proc' = [proc EXCEPT ![t] = [st |-> "sleep", timer |-> delayMs]]
          /\ attempts' = [attempts EXCEPT ![t] = 0]
          /\ UNCHANGED <<queue, dispatchOrder>>
     ELSE Process(queue, ReleaseSlot(active),
                  [proc EXCEPT ![t] = [st |-> "done", timer |-> NoTimer]],
                  [attempts EXCEPT ![t] = 0])
  /\ UNCHANGED <<concurrency, nAdded, dropped>>

\* The end of the pacing sleep as it would be without the process() call
\* that follows it
QueueWakeNoProcess(t) ==
  /\ proc[t].st = "sleep"
  /\ proc[t].timer = 0
  /\ proc' = [proc EXCEPT ![t] = [st |-> "done", timer |-> NoTimer]]
  /\ UNCHANGED <<concurrency, queue, active, stats, nAdded, promise, attempts,
                 dispatchOrder, retried, dropped>>

\* The pacing sleep of the process() call of task t is over: process()
QueueWake(t) ==
  /\ proc[t].st = "sleep"
  /\ proc[t].timer = 0
  /\ Process(queue, active,
             [proc EXCEPT ![t] = [st |-> "done", timer |-> NoTimer]], attempts)
  /\ UNCHANGED <<concurrency, stats, nAdded, promise, retried, dropped>>

\* The thunk of task t fails an attempt and goes on to the next one
QueueThunkRetry(t) ==
  /\ proc[t].st = "task"
  /\ attempts[t] < MAX_RETRIES
  /\ attempts' = [attempts EXCEPT ![t] = @ + 1]
  /\ UNCHANGED <<concurrency, queue, active, stats, nAdded, promise, proc,
                 dispatchOrder, retried, dropped>>

\* clear() as it would be if it rejected what it discards
QueueClearRejects ==
  /\ queue' = <<>>
  /\ dropped' = dropped \cup {queue[i] : i \in 1..Len(queue)}
  /\ promise' = [t \in Tasks |->
                  IF \E i \in 1..Len(queue) : queue[i] = t
                  THEN "rejected" ELSE promise[t]]
  /\ UNCHANGED <<concurrency, active, stats, nAdded, proc, attempts,
                 dispatchOrder, retried>>

\* clear()
QueueClear ==
  /\ queue' = <<>>
  /\ dropped' = dropped \cup {queue[i] : i \in 1..Len(queue)}
  /\ UNCHANGED <<concurrency, active, stats, nAdded, promise, proc, attempts,
                 dispatchOrder, retried>>

\* getStats()
GetStats == [total |-> stats.total, success |-> stats.success,
             failed |-> stats.failed, queued |-> Len(queue), active |-> active]

\* Time passes
QueueTick(d) ==
  /\ proc' = [t \in Tasks |-> [proc[t] EXCEPT !.timer = TimerAfter(@, d)]]
  /\ UNCHANGED <<concurrency, queue, active, stats, nAdded, promise, attempts,
                 dispatchOrder, retried, dropped>>

\* ------------------------------------------------------------------------
\* ProcessedImageTracker
\* ------------------------------------------------------------------------
NoRecord == "no record"

HashOf == [res \in Resources |-> SimpleHash(ImageKey(res))]

\* getImageHash(img), from the element's src and dimensions of the moment
GetImageHash(img) == HashOf[imgRes[img]]

\* isProcessed(img): the WeakMap first, then the hash set
IsProcessedWeakMapOnly(img) == processedImages[img] # NoRecord
IsProcessed(img) ==
  \/ processedImages[img] # NoRecord
  \/ GetImageHash(img) \in processedHashes

\* isInFlight(img)
IsInFlight(img) == GetImageHash(img) \in inFlight

\* markInFlight(img), clearInFlight(img): the in-flight set they leave
MarkInFlight(inf, img) == inf \cup {GetImageHash(img)}
ClearInFlight(inf, img) == inf \ {GetImageHash(img)}

\* markProcessed(img, description) as it would be without its clearInFlight
MarkProcessedKeepsInFlight(img, description) ==
  /\ processedImages' = [processedImages EXCEPT ![img] = description]
  /\ processedHashes' = processedHashes \cup {GetImageHash(img)}
  /\ UNCHANGED inFlight

\* markProcessed(img, description) as it would be with markInFlight called
\* in the place of clearInFlight
MarkProcessedMarksInFlight(img, description) ==
  /\ processedImages' = [processedImages EXCEPT ![img] = description]
  /\ processedHashes' = processedHashes \cup {GetImageHash(img)}
  /\ inFlight' = MarkInFlight(inFlight, img)

\* markProcessed(img, description)
MarkProcessed(img, description) ==
  /\ processedImages' = [processedImages EXCEPT ![img] = description]
  /\ processedHashes' = processedHashes \cup {GetImageHash(img)}
  /\ inFlight' = ClearInFlight(inFlight, img)

TrackerInit ==
  /\ processedImages = [i \in Imgs |-> NoRecord]
  /\ processedHashes = {}
  /\ inFlight = {}

\* ------------------------------------------------------------------------
\* Converter helpers used by the orchestrator
\* ------------------------------------------------------------------------
\* getBase64Size(base64): Math.ceil((base64Length * 3) / 4) - padding
GetBase64Size(b) ==
  LET base64Length == b.length - b.comma - 1
  IN  ((base64Length * 3 + 3) \div 4) - b.padding

\* isWithinSizeLimit(base64, maxSizeMB): sizeBytes / (1024 * 1024) > maxSizeMB fails
IsWithinSizeLimit(b, maxSizeMB) ==
  ~(GetBase64Size(b) > maxSizeMB * 1024 * 1024)

\* ------------------------------------------------------------------------
\* Orchestrator: processSingleImage
\* ------------------------------------------------------------------------
Calls == 1..MaxCalls
NoHash == <<>>
NoRun == [img |-> "", pc |-> "unused", marked |-> NoHash, task |-> 0]
DoneRun == [img |-> "", pc |-> "done", marked |-> NoHash, task |-> 0]

\* What the latest step of a processSingleImage call did
NoEvent == [kind |-> "none", outcome |-> "", wasProcessed |-> FALSE,
            converted |-> FALSE, submitted |-> FALSE, size |-> ""]

\* The computed size of a payload against the ceiling of 5 MB
SizeClass(b) ==
  IF GetBase64Size(b) > 5 * 1024 * 1024 THEN "over"
  ELSE IF GetBase64Size(b) = 5 * 1024 * 1024 THEN "ceiling"
  ELSE "under"

PageInit ==
  /\ imgRes \in [Imgs -> Resources]
  /\ imgAlt = [i \in Imgs |-> ""]
  /\ imgTitle = [i \in Imgs |-> ""]

OrchInit ==
  /\ nCalls = 0
  /\ run = [r \in Calls |-> NoRun]
  /\ taskRun = [t \in Tasks |-> 0]
  /\ markedIdents = {}
  /\ records = [res \in Resources |-> NoRecord]
  /\ last = NoEvent

\* processSingleImage(img) is called (initial scan, mutation observer,
\* intersection observer): everything up to the await of the conversion.
StartCall(img) ==
  /\ nCalls < MaxCalls
  /\ nCalls' = nCalls + 1
  /\ LET r == nCalls + 1
         ev == [NoEvent EXCEPT !.kind = "call",
                               !.wasProcessed = imgRes[img] \in markedIdents]
     IN  IF IsProcessed(img)
         THEN /\ run' = [run EXCEPT ![r] = DoneRun]
              /\ last' = [ev EXCEPT !.outcome = "skipProcessed"]
              /\ UNCHANGED inFlight
         ELSE IF IsInFlight(img)
         THEN /\ run' = [run EXCEPT ![r] = DoneRun]
              /\ last' = [ev EXCEPT !.outcome = "skipInFlight"]
              /\ UNCHANGED inFlight
         ELSE /\ inFlight' = MarkInFlight(inFlight, img)
              /\ run' = [run EXCEPT ![r] = [img |-> img, pc |-> "convert",
                                           marked |-> GetImageHash(img),
                                           task |-> 0]]
              /\ last' = [ev EXCEPT !.outcome = "converting", !.converted = TRUE]
  /\ UNCHANGED <<qvars, pvars, processedImages, processedHashes, taskRun,
                 markedIdents, records>>

\* The conversion of call r yields payload b: size check, then
\* processImage(base64), which is requestQueue.add(...)
ConvertOk(r, b) ==
  /\ run[r].pc = "convert"
  /\ LET ev == [NoEvent EXCEPT !.kind = "converted", !.size = SizeClass(b)]
     IN  IF ~IsWithinSizeLimit(b, 5)
         THEN /\ inFlight' = ClearInFlight(inFlight, run[r].img)
              /\ run' = [run EXCEPT ![r] = DoneRun]
              /\ last' = [ev EXCEPT !.outcome = "skipSize"]
              /\ UNCHANGED <<qvars, taskRun>>
         ELSE /\ nAdded < MaxTasks
              /\ QueueAdd(nAdded + 1)
              /\ taskRun' = [taskRun EXCEPT ![nAdded + 1] = r]
              /\ run' = [run EXCEPT ![r].pc = "queued", ![r].task = nAdded + 1]
              /\ last' = [ev EXCEPT !.outcome = "queued", !.submitted = TRUE]
              /\ UNCHANGED inFlight
  /\ UNCHANGED <<pvars, processedImages, processedHashes, nCalls,
                 markedIdents, records>>

\* The conversion of call r fails: the catch block
ConvertFail(r) ==
  /\ run[r].pc = "convert"
  /\ inFlight' = ClearInFlight(inFlight, run[r].img)
  /\ run' = [run EXCEPT ![r] = DoneRun]
  /\ last' = [NoEvent EXCEPT !.kind = "ended", !.outcome = "convFailed"]
  /\ UNCHANGED <<qvars, pvars, processedImages, processedHashes, nCalls, taskRun,
                 markedIdents, records>>

\* The promise call r awaits is resolved with description d: write-back and
\* markProcessed
RunResolved(r, d) ==
  LET img == run[r].img IN
  /\ imgAlt' = [imgAlt EXCEPT ![img] = d]
  /\ imgTitle' = [imgTitle EXCEPT ![img] = d]
  /\ MarkProcessed(img, d)
  /\ markedIdents' = markedIdents \cup {imgRes[img]}
  /\ records' = [records EXCEPT ![imgRes[img]] = d]
  /\ run' = [run EXCEPT ![r] = DoneRun]
  /\ last' = [NoEvent EXCEPT !.kind = "ended", !.outcome = "success"]
  /\ UNCHANGED <<imgRes, nCalls, taskRun>>

\* The promise call r awaits is rejected: the catch block
RunRejected(r) ==
  /\ inFlight' = ClearInFlight(inFlight, run[r].img)
  /\ run' = [run EXCEPT ![r] = DoneRun]
  /\ last' = [NoEvent EXCEPT !.kind = "ended", !.outcome = "descFailed"]
  /\ UNCHANGED <<pvars, processedImages, processedHashes, nCalls, taskRun,
                 markedIdents, records>>

\* The thunk of a task settles; the process() call counts it and settles the
\* promise, and the processSingleImage call awaiting the promise goes on in
\* the same run of the microtask queue.
TaskSettle(t, ok, d) ==
  /\ QueueSettle(t, ok)
  /\ IF taskRun[t] = 0 THEN UNCHANGED <<pvars, tvars, ovars>>
     ELSE IF ok THEN RunResolved(taskRun[t], d)
     ELSE RunRejected(taskRun[t])

\* The page gives an element another src (lazy loading, carousels)
SrcChange(img, res) ==
  /\ res # imgRes[img]
  /\ imgRes' = [imgRes EXCEPT ![img] = res]
  /\ UNCHANGED <<qvars, imgAlt, imgTitle, tvars, ovars>>

\* ------------------------------------------------------------------------
\* Description client: sendWithTimeout and sendImageToAPI
\* ------------------------------------------------------------------------
MsgApiReturned ==
  <<"A", "P", "I", " ", "r", "e", "t", "u", "r", "n", "e", "d", " ">>
MsgColonSpace ==
  <<":", " ">>
MsgInvalidFormat ==
  <<"I", "n", "v", "a", "l", "i", "d", " ", "A", "P", "I", " ", "r", "e",
    "s", "p", "o", "n", "s", "e", " ", "f", "o", "r", "m", "a", "t">>
MsgRequestTimeout ==
  <<"R", "e", "q", "u", "e", "s", "t", " ", "t", "i", "m", "e", "o", "u",
    "t">>
MsgNetworkError ==
  <<"N", "e", "t", "w", "o", "r", "k", "E", "r", "r", "o", "r", " ", "w",
    "h", "e", "n", " ", "a", "t", "t", "e", "m", "p", "t", "i", "n", "g",
    " ", "t", "o", " ", "f", "e", "t", "c", "h", " ", "r", "e", "s", "o",
    "u", "r", "c", "e", ".">>
MsgJsonSyntax ==
  <<"J", "S", "O", "N", ".", "p", "a", "r", "s", "e", ":", " ", "u", "n",
    "e", "x", "p", "e", "c", "t", "e", "d", " ", "c", "h", "a", "r", "a",
    "c", "t", "e", "r", " ", "a", "t", " ", "l", "i", "n", "e", " ", "1",
    " ", "c", "o", "l", "u", "m", "n", " ", "1", " ", "o", "f", " ", "t",
    "h", "e", " ", "J", "S", "O", "N", " ", "d", "a", "t", "a">>
MsgInvalidBase64 ==
  <<"I", "n", "v", "a", "l", "i", "d", " ", "b", "a", "s", "e", "6", "4",
    " ", "f", "o", "r", "m", "a", "t">>
MsgApiFailedAfter ==
  <<"A", "P", "I", " ", "f", "a", "i", "l", "e", "d", " ", "a", "f", "t",
    "e", "r", " ">>
MsgAttempts ==
  <<" ", "a", "t", "t", "e", "m", "p", "t", "s", ":", " ">>
Str400 ==
  <<"4", "0", "0">>
StrInvalid ==
  <<"I", "n", "v", "a", "l", "i", "d">>
TextOK ==
  <<"O", "K">>
TextBadRequest ==
  <<"B", "a", "d", " ", "R", "e", "q", "u", "e", "s", "t">>
TextUnauthorized ==
  <<"U", "n", "a", "u", "t", "h", "o", "r", "i", "z", "e", "d">>
TextForbidden ==
  <<"F", "o", "r", "b", "i", "d", "d", "e", "n">>
TextNotFound ==
  <<"N", "o", "t", " ", "F", "o", "u", "n", "d">>
TextUnprocessable ==
  <<"U", "n", "p", "r", "o", "c", "e", "s", "s", "a", "b", "l", "e", " ",
    "E", "n", "t", "i", "t", "y">>
TextInternalError ==
  <<"I", "n", "t", "e", "r", "n", "a", "l", " ", "S", "e", "r", "v", "e",
    "r", " ", "E", "r", "r", "o", "r">>
TextUnavailable ==
  <<"S", "e", "r", "v", "i", "c", "e", " ", "U", "n", "a", "v", "a", "i",
    "l", "a", "b", "l", "e">>

\* str.includes(pat)
Includes(str, pat) ==
  \E i \in 1..(Len(str) - Len(pat) + 1) :
    SubSeq(str, i, i + Len(pat) - 1) = pat

\* Responses of the description service: status and statusText
StatusText(status) ==
  CASE status = 200 -> TextOK
    [] status = 400 -> TextBadRequest
    [] status = 401 -> TextUnauthorized
    [] status = 403 -> TextForbidden
    [] status = 404 -> TextNotFound
    [] status = 422 -> TextUnprocessable
    [] status = 500 -> TextInternalError
    [] status = 503 -> TextUnavailable

Statuses == {200, 400, 401, 403, 404, 422, 500, 503}

\* response.ok
ResponseOk(status) == status >= 200 /\ status <= 299

\* `API returned ${response.status}: ${response.statusText}`
ApiReturnedMessage(status) ==
  MsgApiReturned \o Decimal(status) \o MsgColonSpace \o StatusText(status)

\* `API failed after ${maxRetries} attempts: ${lastError.message}`
ApiFailedBare(n, message) == MsgApiFailedAfter \o Decimal(n) \o MsgAttempts
ApiFailedMessage(n, message) ==
  MsgApiFailedAfter \o Decimal(n) \o MsgAttempts \o message

\* The test of line 181: errors that are not retried
NonRetryable(message) == Includes(message, Str400) \/ Includes(message, StrInvalid)

\* Math.pow(2, attempt - 1) * 1000
WaitTimeFlat(k) == 1000
WaitTime(k) == (2 ^ (k - 1)) * 1000

\* attempt < maxRetries, the test of line 186
SleepsAfterAlways(k, n) == TRUE
SleepsAfter(k, n) == k < n

\* attempt <= maxRetries, the loop test of line 159
LoopGoesOnOneMore(k, n) == k <= n + 1
LoopGoesOn(k, n) == k <= n

\* The stopwatch of the backoff stops at the longest wait there can be
MaxWait == (2 ^ (MAX_RETRIES - 1)) * 1000

\* The response whose body is being read, and the description read from it
NoResponse == [status |-> 0, attempt |-> 0, description |-> ""]

\* What ended an attempt, as the service and the network saw it
NoCause == [kind |-> "none", status |-> 0]
Transient(cause) ==
  \/ cause.kind \in {"timeout", "network"}
  \/ cause.kind = "status" /\ cause.status >= 500 /\ cause.status <= 599
ClientError(cause) ==
  cause.kind = "status" /\ cause.status >= 400 /\ cause.status <= 499

ApiRest ==
  /\ apiPc = "idle"
  /\ attempt = 0
  /\ abortTimer = NoTimer
  /\ backoffTimer = NoTimer
  /\ lastError = <<>>
  /\ apiResult = <<>>
  /\ response = NoResponse
  /\ attemptsMade = 0
  /\ sleeps = 0
  /\ sinceFailure = NoTimer
  /\ startGap = NoTimer
  /\ lastCause = NoCause
  /\ onlyTransient = TRUE
  /\ seen4xx = FALSE

ApiIdle ==
  /\ maxRetries \in 1..MAX_RETRIES
  /\ payloadOk \in BOOLEAN
  /\ ApiRest

ApiUnused ==
  /\ maxRetries = MAX_RETRIES
  /\ payloadOk = TRUE
  /\ ApiRest

\* The catch block of sendImageToAPI after attempt `attempt` failed with
\* `message`, and what the loop does next
AttemptFailed(message, cause) ==
  /\ lastError' = message
  /\ lastCause' = cause
  /\ onlyTransient' = (onlyTransient /\ Transient(cause))
  /\ seen4xx' = (seen4xx \/ ClientError(cause))
  /\ sinceFailure' = 0
  /\ abortTimer' = NoTimer
  /\ response' = NoResponse
  /\ IF NonRetryable(message)
     THEN /\ apiPc' = "rejected"
          /\ apiResult' = message
          /\ UNCHANGED <<backoffTimer, sleeps>>
     ELSE IF SleepsAfter(attempt, maxRetries)
     THEN /\ apiPc' = "backoff"
          /\ backoffTimer' = WaitTime(attempt)
          /\ sleeps' = sleeps + 1
          /\ UNCHANGED apiResult
     ELSE IF LoopGoesOn(attempt + 1, maxRetries)
     THEN \* the next pass at once, without a sleep
          /\ apiPc' = "backoff"
          /\ backoffTimer' = 0
          /\ UNCHANGED <<apiResult, sleeps>>
     ELSE /\ apiPc' = "rejected"
          /\ apiResult' = ApiFailedMessage(maxRetries, message)
          /\ UNCHANGED <<backoffTimer, sleeps>>
  /\ UNCHANGED <<maxRetries, payloadOk, attempt, attemptsMade, startGap>>

\* One pass of the loop body begins as attempt number k: base64ToBlob, the
\* form, and sendWithTimeout up to its await of fetch
AttemptBegins(k) ==
  /\ attempt' = k
  /\ attemptsMade' = attemptsMade + 1
  /\ startGap' = sinceFailure
  /\ IF payloadOk
     THEN /\ apiPc' = "fetch"
          /\ abortTimer' = REQUEST_TIMEOUT_MS
          /\ backoffTimer' = NoTimer
          /\ UNCHANGED <<lastError, apiResult, response, sleeps, sinceFailure,
                         lastCause, onlyTransient, seen4xx>>
          /\ UNCHANGED <<maxRetries, payloadOk>>
     ELSE \* base64ToBlob throws into the catch block of the same pass
          /\ lastError' = MsgInvalidBase64
          /\ lastCause' = [kind |-> "blob", status |-> 0]
          /\ onlyTransient' = FALSE
          /\ sinceFailure' = 0
          /\ apiPc' = "rejected"
          /\ apiResult' = MsgInvalidBase64
          /\ UNCHANGED <<abortTimer, backoffTimer, response, sleeps, seen4xx,
                         maxRetries, payloadOk>>

\* sendImageToAPI(base64, maxRetries) is called
ApiCall ==
  /\ apiPc = "idle"
  /\ AttemptBegins(1)

\* The backoff sleep is over: attempt++, the loop test, and the next pass
\* of the loop or the throw that follows the loop
BackoffOver ==
  /\ apiPc = "backoff"
  /\ backoffTimer = 0
  /\ IF LoopGoesOn(attempt + 1, maxRetries)
     THEN AttemptBegins(attempt + 1)
     ELSE /\ apiPc' = "rejected"
          /\ apiResult' = ApiFailedMessage(maxRetries, lastError)
          /\ backoffTimer' = NoTimer
          /\ UNCHANGED <<maxRetries, payloadOk, attempt, abortTimer, lastError,
                         response, attemptsMade, sleeps, sinceFailure, startGap,
                         lastCause, onlyTransient, seen4xx>>

\* fetch resolves with a response: clearTimeout, then the status test
FetchResponds(status) ==
  /\ apiPc = "fetch"
  /\ IF ~ResponseOk(status)
     THEN AttemptFailed(ApiReturnedMessage(status),
                        [kind |-> "status", status |-> status])
     ELSE /\ apiPc' = "json"
          /\ abortTimer' = NoTimer
          /\ response' = [status |-> status, attempt |-> attempt,
                          description |-> ""]
          /\ UNCHANGED <<maxRetries, payloadOk, attempt, backoffTimer, lastError,
                         apiResult, attemptsMade, sleeps, sinceFailure, startGap,
                         lastCause, onlyTransient, seen4xx>>

\* fetch rejects: the network failed
FetchFails ==
  /\ apiPc = "fetch"
  /\ AttemptFailed(MsgNetworkError, [kind |-> "network", status |-> 0])

\* The timeout timer runs: controller.abort(), fetch rejects with an
\* AbortError, which sendWithTimeout turns into 'Request timeout'
TimeoutFires ==
  /\ apiPc = "fetch"
  /\ abortTimer = 0
  /\ AttemptFailed(MsgRequestTimeout, [kind |-> "timeout", status |-> 0])

\* response.json() yields an object with a string description d
JsonDescribes(d) ==
  /\ apiPc = "json"
  /\ apiPc' = "resolved"
  /\ apiResult' = d
  /\ response' = [response EXCEPT !.description = d]
  /\ UNCHANGED <<maxRetries, payloadOk, attempt, abortTimer, backoffTimer,
                 lastError, attemptsMade, sleeps, sinceFailure, startGap,
                 lastCause, onlyTransient, seen4xx>>

\* response.json() yields something else: null, no description, not a string
JsonOtherShape ==
  /\ apiPc = "json"
  /\ AttemptFailed(MsgInvalidFormat, [kind |-> "shape", status |-> 0])

\* response.json() rejects: the body is not JSON
JsonSyntaxError ==
  /\ apiPc = "json"
  /\ AttemptFailed(MsgJsonSyntax, [kind |-> "syntax", status |-> 0])

\* Time passes
ApiTime(d) ==
  /\ abortTimer' = TimerAfter(abortTimer, d)
  /\ backoffTimer' = TimerAfter(backoffTimer, d)
  /\ sinceFailure' = WatchAfter(sinceFailure, d, MaxWait)
  /\ UNCHANGED <<maxRetries, payloadOk, apiPc, attempt, lastError, apiResult,
                 response, attemptsMade, sleeps, startGap, lastCause,
                 onlyTransient, seen4xx>>

\* ------------------------------------------------------------------------
\* Actions and specifications
\* ------------------------------------------------------------------------
Add == /\ nAdded < MaxTasks
       /\ QueueAdd(nAdded + 1)
       /\ UNCHANGED <<pvars, tvars, ovars, avars, xvars>>

Resolve == /\ \E t \in Tasks, d \in Descriptions : TaskSettle(t, TRUE, d)
           /\ UNCHANGED <<avars, xvars>>

Reject == /\ \E t \in Tasks : TaskSettle(t, FALSE, "")
          /\ UNCHANGED <<avars, xvars>>

Retry == \E t \in Tasks :
           QueueThunkRetry(t) /\ UNCHANGED <<pvars, tvars, ovars, avars, xvars>>

Wake == \E t \in Tasks : QueueWake(t) /\ UNCHANGED <<pvars, tvars, ovars, avars, xvars>>

Clear == QueueClear /\ UNCHANGED <<pvars, tvars, ovars, avars, xvars>>

Tick == \E d \in Deltas : QueueTick(d) /\ UNCHANGED <<pvars, tvars, ovars, avars, xvars>>

Call == /\ \E img \in Imgs : StartCall(img)
        /\ UNCHANGED <<avars, xvars>>

Converted == /\ \E r \in Calls, b \in Payloads : ConvertOk(r, b)
             /\ UNCHANGED <<avars, xvars>>

ConversionFailed == /\ \E r \in Calls : ConvertFail(r)
                    /\ UNCHANGED <<avars, xvars>>

PageChangesSrc == /\ \E img \in Imgs, res \in Resources : SrcChange(img, res)
                  /\ UNCHANGED <<avars, xvars>>

QueueFair == /\ WF_vars(Resolve \/ Reject)
             /\ WF_vars(Wake)
             /\ WF_vars(Tick)

\* The queue on its own, driven by arbitrary callers
QueueOnlyInit ==
  /\ QueueInit /\ TrackerInit /\ OrchInit /\ ApiUnused
  /\ BatchUnused /\ ConvUnused /\ ProxyUnused
  /\ imgRes = [i \in Imgs |-> CHOOSE res \in Resources : res.src = UrlAa]
  /\ imgAlt = [i \in Imgs |-> ""]
  /\ imgTitle = [i \in Imgs |-> ""]

QueueNext == Add \/ Resolve \/ Reject \/ Retry \/ Wake \/ Clear \/ Tick

QueueSpec == QueueOnlyInit /\ [][QueueNext]_vars /\ QueueFair

\* The orchestrator with the tracker, the page and the queue
OrchSpecInit ==
  /\ QueueInit /\ TrackerInit /\ OrchInit /\ PageInit /\ ApiUnused
  /\ BatchUnused /\ ConvUnused /\ ProxyUnused

OrchNext == Call \/ Converted \/ ConversionFailed \/ Resolve \/ Reject
            \/ Wake \/ Clear \/ Tick \/ PageChangesSrc

\* Conversions end, thunks settle and timers fire
OrchFair == /\ QueueFair
            /\ WF_vars(Converted \/ ConversionFailed)

OrchSpec == OrchSpecInit /\ [][OrchNext]_vars /\ OrchFair

\* One sendImageToAPI call against the description service
Calling == ApiCall /\ UNCHANGED <<qvars, pvars, tvars, ovars, xvars>>

NextPass == BackoffOver /\ UNCHANGED <<qvars, pvars, tvars, ovars, xvars>>

Responds == \E status \in Statuses :
              FetchResponds(status) /\ UNCHANGED <<qvars, pvars, tvars, ovars, xvars>>

NetworkFails == FetchFails /\ UNCHANGED <<qvars, pvars, tvars, ovars, xvars>>

TimesOut == TimeoutFires /\ UNCHANGED <<qvars, pvars, tvars, ovars, xvars>>

BodyDescribes == \E d \in Descriptions :
                   JsonDescribes(d) /\ UNCHANGED <<qvars, pvars, tvars, ovars, xvars>>

BodyOtherShape == JsonOtherShape /\ UNCHANGED <<qvars, pvars, tvars, ovars, xvars>>

BodyNotJson == JsonSyntaxError /\ UNCHANGED <<qvars, pvars, tvars, ovars, xvars>>

ApiTick == \E d \in ApiDeltas :
             ApiTime(d) /\ UNCHANGED <<qvars, pvars, tvars, ovars, xvars>>

ApiInit ==
  /\ QueueInit /\ concurrency = MAX_CONCURRENT_REQUESTS
  /\ TrackerInit /\ OrchInit /\ ApiIdle
  /\ BatchUnused /\ ConvUnused /\ ProxyUnused
  /\ imgRes = [i \in Imgs |-> CHOOSE res \in Resources : res.src = UrlAa]
  /\ imgAlt = [i \in Imgs |-> ""]
  /\ imgTitle = [i \in Imgs |-> ""]

ApiNext == Calling \/ NextPass \/ Responds \/ NetworkFails \/ TimesOut
           \/ BodyDescribes \/ BodyOtherShape \/ BodyNotJson \/ ApiTick

ApiFair == /\ WF_vars(NextPass)
           /\ WF_vars(TimesOut)
           /\ WF_vars(ApiTick)

ApiSpec == ApiInit /\ [][ApiNext]_vars /\ ApiFair

\* ------------------------------------------------------------------------
\* Properties of the queue
\* ------------------------------------------------------------------------
Executing == {t \in Tasks : proc[t].st = "task"}
Pending == {queue[i] : i \in 1..Len(queue)}
Dispatched == {dispatchOrder[i] : i \in 1..Len(dispatchOrder)}
ResolvedTasks == {t \in Tasks : promise[t] = "resolved"}
RejectedTasks == {t \in Tasks : promise[t] = "rejected"}

\* C3: concurrency ceiling.  In every reachable state of the queue the
\* number of executing tasks is this.active and 0 <= active <= concurrency.
C3_ConcurrencyCeiling ==
  /\ active = Cardinality(Executing)
  /\ 0 <= active
  /\ active <= concurrency

\* A task waits in the queue because two tasks execute under a ceiling of 2
C3_Witness ==
  /\ concurrency = 2
  /\ active = concurrency
  /\ Cardinality(Executing) = 2
  /\ queue # <<>>

\* C4: FIFO dispatch start.  Tasks are numbered in the order of their add()
\* calls; the thunks begin execution in increasing order, for every
\* concurrency and interleaving.
C4_FifoDispatchStart ==
  \A i, j \in 1..Len(dispatchOrder) :
    i < j => dispatchOrder[i] < dispatchOrder[j]

\* Three tasks dispatched in order, the second settled before the first
C4_Witness ==
  /\ Len(dispatchOrder) >= 3
  /\ promise[2] \in {"resolved", "rejected"}
  /\ promise[1] = "pending"

\* C5: pacing.  Once a task completes while tasks are pending, no task
\* begins execution until delayMs has passed since that completion.  The
\* completion arms a pacing timer of delayMs, so less than delayMs has
\* passed exactly while that timer has time left.
PacingRunning == \E t \in Tasks : proc[t].st = "sleep" /\ proc[t].timer > 0

C5_NoDispatchWithinDelay ==
  [][Len(dispatchOrder') > Len(dispatchOrder) => ~PacingRunning]_vars

\* C6: failure isolation.  A step in which the thunk of t fails rejects the
\* promise of t only, leaves every other promise as it was and releases the
\* slot; and a task pending after a failure is dispatched later on (unless
\* clear() discards it), given that thunks settle and timers fire.
C6_RejectionStep(t) ==
  /\ promise[t] = "pending"
  /\ promise'[t] = "rejected"

C6_FailureIsolation ==
  /\ [][\A t \in Tasks : C6_RejectionStep(t) =>
          /\ \A u \in Tasks \ {t} : promise'[u] = promise[u]
          /\ active' = active - 1
          /\ stats'.failed = stats.failed + 1
          /\ stats'.success = stats.success]_vars
  /\ \A t \in Tasks :
       (RejectedTasks # {} /\ t \in Pending) ~> (t \in Dispatched \/ t \in dropped)

\* A task failed while another was pending, and that one has been dispatched
C6_Witness ==
  \E t, u \in Tasks :
    /\ promise[t] = "rejected"
    /\ t < u
    /\ u \in Dispatched
    /\ concurrency = 1
    /\ dropped = {}

\* C7: stats consistency.  When every add()ed task has resolved or rejected
\* and nothing is pending or executing, getStats() reports total = N,
\* success = S, failed = F, queued = 0, active = 0.
C7_StatsConsistency ==
  (/\ Cardinality(ResolvedTasks) + Cardinality(RejectedTasks) = nAdded
   /\ queue = <<>>
   /\ Executing = {})
  => GetStats = [total |-> nAdded,
                 success |-> Cardinality(ResolvedTasks),
                 failed |-> Cardinality(RejectedTasks),
                 queued |-> 0,
                 active |-> 0]

\* All tasks settled, successes and failures among them, one after retries
C7_Witness ==
  /\ nAdded = MaxTasks
  /\ Cardinality(ResolvedTasks) + Cardinality(RejectedTasks) = nAdded
  /\ ResolvedTasks # {}
  /\ RejectedTasks # {}
  /\ retried = {"resolved", "rejected"}

\* ------------------------------------------------------------------------
\* Properties of the orchestrator
\* ------------------------------------------------------------------------
\* The submissions the queue holds, pending or executing, and the identity
\* each was made for (the one its call inserted into inFlight)
Submissions == {t \in Tasks : taskRun[t] # 0 /\ t \in Pending \cup Executing}
SubmissionIdentity(t) == run[taskRun[t]].marked

\* C1: in-flight mutual exclusion.  For every interleaving of
\* processSingleImage calls the queue never holds two submissions (pending
\* or executing) for the same image identity.
C1_OneSubmissionPerIdentity ==
  \A t, u \in Submissions :
    t # u => SubmissionIdentity(t) # SubmissionIdentity(u)

\* C2: idempotent processing.  A processSingleImage call on an image whose
\* src and natural dimensions markProcessed has succeeded for returns
\* without calling the converter and without adding a task to the queue.
C2_IdempotentProcessing ==
  (last.kind = "call" /\ last.wasProcessed)
  => /\ last.outcome = "skipProcessed"
     /\ ~last.converted
     /\ ~last.submitted

\* Such a call has been made on an element that is not the one marked
C2_Witness ==
  /\ last.kind = "call"
  /\ last.wasProcessed
  /\ last.outcome = "skipProcessed"
  /\ \E img \in Imgs : processedImages[img] = NoRecord /\ imgRes[img] \in markedIdents
  /\ \A img \in Imgs : processedImages[img] # NoRecord => imgRes[img] \notin markedIdents

\* ------------------------------------------------------------------------
\* Properties of the description client
\* ------------------------------------------------------------------------
\* C8: non-retryable short-circuit.  A 4xx response ends sendImageToAPI at
\* once: the call fails on that attempt, with no backoff sleep and no
\* further request.
C8_ClientErrorEndsCall ==
  seen4xx => /\ apiPc = "rejected"
             /\ ClientError(lastCause)

\* C9: backoff timing.  Attempt k + 1 begins no earlier than
\* 2^(k-1) * 1000 ms after attempt k failed, and an attempt that reads a
\* description resolves the call with that description.
C9_BackoffTiming ==
  /\ attemptsMade >= 2 => startGap >= (2 ^ (attemptsMade - 2)) * 1000
  /\ response.description # "" =>
       /\ apiPc = "resolved"
       /\ apiResult = response.description
       /\ response.attempt = attemptsMade

\* Two failures, then attempt 3 of 3 succeeds 2000 ms after the second
C9_Witness ==
  /\ maxRetries = 3
  /\ attemptsMade = 3
  /\ startGap = 2000
  /\ apiPc = "resolved"
  /\ apiResult \in Descriptions

\* The message sendWithTimeout throws for a transient cause
TransientMessage(cause) ==
  CASE cause.kind = "timeout" -> MsgRequestTimeout
    [] cause.kind = "network" -> MsgNetworkError
    [] cause.kind = "status" -> MsgApiReturned \o Decimal(cause.status)
                                  \o MsgColonSpace \o StatusText(cause.status)

SendPending == apiPc \in {"fetch", "json"}

C11_HardTimeout ==
  /\ [](SendPending => abortTimer # NoTimer)
  /\ \A k \in 1..MAX_RETRIES :
       (SendPending /\ attempt = k) ~> ~(SendPending /\ attempt = k)

\* ------------------------------------------------------------------------
\* Further properties of the orchestrator
\* ------------------------------------------------------------------------
\* The calls that executed markInFlight and have not ended
RunningCalls == {r \in Calls : run[r].pc \in {"convert", "queued"}}

\* C12: in-flight compensation.  Once a processSingleImage call that
\* executed markInFlight has ended, by any path, the identity it inserted is
\* not in inFlight: every entry of inFlight belongs to a call still running.
C12_InFlightCompensated ==
  \A h \in inFlight : \E r \in RunningCalls : run[r].marked = h


\* C13: no permanent busy state.  Every identity that enters inFlight
\* leaves it again, also when clear() discards pending tasks, given that
\* thunks settle and timers fire.
C13_NoPermanentBusy ==
  \A res \in Resources :
    (HashOf[res] \in inFlight) ~> (HashOf[res] \notin inFlight)

\* ------------------------------------------------------------------------
\* Batch: processImages
\* ------------------------------------------------------------------------
\* How a processSingleImage call ends: it returns after a skip or a
\* success, and rethrows after its catch block
ReturnOutcomes == {"processed", "skipProcessed", "skipInFlight", "skipSize"}
ThrowOutcomes == {"convFailed", "descFailed"}
SingleOutcomes == ReturnOutcomes \cup ThrowOutcomes

\* The promise of the async function processSingleImage
SingleSettles(outcome) ==
  IF outcome \in ThrowOutcomes THEN "rejected" ELSE "fulfilled"

\* processSingleImage(img).catch(error => { log(...) }): the handler
\* returns, so a rejection becomes a fulfilment
GuardedNoCatch(st) == st
Guarded(st) == IF st = "rejected" THEN "fulfilled" ELSE st

\* Promise.all(promises): rejected with the first rejection, fulfilled when
\* every promise is
PromiseAll(b) ==
  IF \E i \in 1..Len(b) : b[i].guarded = "rejected" THEN "rejected"
  ELSE IF \A i \in 1..Len(b) : b[i].guarded \in {"none", "fulfilled"}
  THEN "resolved"
  ELSE "pending"

\* The batches: for each image in order, whether isMeaningfulImage keeps it
Batches == UNION {[1..n -> BOOLEAN] : n \in 0..BatchLen}

\* processImages(images): the empty batch and the batch with no meaningful
\* image return at once; otherwise map() calls processSingleImage on every
\* meaningful image before the await of Promise.all
ProcessImages(images) ==
  /\ batchPromise = "none"
  /\ batch' = [i \in 1..Len(images) |->
                 [meaningful |-> images[i],
                  single |-> IF images[i] THEN "pending" ELSE "none",
                  guarded |-> IF images[i] THEN "pending" ELSE "none",
                  outcome |-> ""]]
  /\ batchPromise' = IF Len(images) = 0 THEN "resolved"
                     ELSE IF \A i \in 1..Len(images) : ~images[i] THEN "resolved"
                     ELSE "pending"

\* The processSingleImage call of image i ends with `outcome`; the promises
\* that depend on it settle in the same run of the microtask queue
SingleEnds(i, outcome) ==
  /\ i \in 1..Len(batch)
  /\ batch[i].single = "pending"
  /\ batch' = [batch EXCEPT ![i].single = SingleSettles(outcome),
                            ![i].guarded = Guarded(SingleSettles(outcome)),
                            ![i].outcome = outcome]
  /\ batchPromise' = IF batchPromise = "pending" THEN PromiseAll(batch')
                     ELSE batchPromise

BatchCall == /\ \E images \in Batches : ProcessImages(images)
             /\ UNCHANGED <<qvars, pvars, tvars, ovars, avars, cvars, mvars>>

ImageEnds == /\ \E i \in 1..BatchLen, outcome \in SingleOutcomes :
                  SingleEnds(i, outcome)
             /\ UNCHANGED <<qvars, pvars, tvars, ovars, avars, cvars, mvars>>

\* The rest of the program at rest
QueueAtRest == QueueInit /\ concurrency = MAX_CONCURRENT_REQUESTS
PageAtRest ==
  /\ imgRes = [i \in Imgs |-> CHOOSE res \in Resources : res.src = UrlAa]
  /\ imgAlt = [i \in Imgs |-> ""]
  /\ imgTitle = [i \in Imgs |-> ""]

BatchInit ==
  /\ QueueAtRest /\ PageAtRest /\ TrackerInit /\ OrchInit /\ ApiUnused
  /\ BatchUnused /\ ConvUnused /\ ProxyUnused

BatchNext == BatchCall \/ ImageEnds

\* Every processSingleImage call ends
BatchFair == WF_vars(ImageEnds)

BatchSpec == BatchInit /\ [][BatchNext]_vars /\ BatchFair

\* C14: batch resilience.  Whatever images of a batch fail in conversion or
\* description, the promise processImages returned is never rejected and
\* resolves, and every meaningful image reaches its own terminal outcome.
C14_BatchResilience ==
  /\ [](batchPromise # "rejected")
  /\ [](batchPromise = "resolved" =>
          \A i \in 1..Len(batch) :
            batch[i].meaningful => batch[i].outcome \in SingleOutcomes)
  /\ (batchPromise = "pending") ~> (batchPromise = "resolved")
  /\ \A i \in 1..BatchLen :
       (i <= Len(batch) /\ batch[i].single = "pending")
         ~> (i <= Len(batch) /\ batch[i].outcome \in SingleOutcomes)

\* Three meaningful images, the second failed in conversion, the others
\* processed, and the batch resolved
C14_Witness ==
  /\ Len(batch) = 3
  /\ batch[2].outcome = "convFailed"
  /\ batch[1].outcome = "processed"
  /\ batch[3].outcome = "processed"
  /\ batchPromise = "resolved"


\* C15: payload ceiling.  A converted payload whose computed size is over
\* 5 MB is never added to the queue: the call returns normally, alt is
\* unchanged, the image is not marked processed and the entry the call
\* inserted into inFlight is cleared.  A payload of the ceiling size or
\* less is submitted.
C15_ConversionStep(r) ==
  /\ run[r].pc = "convert"
  /\ run'[r].pc # "convert"
  /\ last'.kind = "converted"

C15_PayloadCeiling ==
  [][\A r \in Calls : C15_ConversionStep(r) =>
       IF last'.size = "over"
       THEN /\ last'.outcome = "skipSize"
            /\ run'[r].pc = "done"
            /\ UNCHANGED <<qvars, pvars, processedImages, processedHashes>>
            /\ run[r].marked \notin inFlight'
       ELSE /\ last'.outcome = "queued"
            /\ nAdded' = nAdded + 1
            /\ stats'.total = stats.total + 1
            /\ taskRun'[nAdded'] = r]_vars

\* ------------------------------------------------------------------------
\* Tracker: ProcessedImageTracker driven operation by operation
\* ------------------------------------------------------------------------
\* getStats()
TrackerStats == [processedCount |-> Cardinality(processedHashes),
                 inFlightCount |-> Cardinality(inFlight)]

\* clear(): the two Sets are cleared, the WeakMap is not
TrackerClear ==
  /\ processedHashes' = {}
  /\ inFlight' = {}
  /\ UNCHANGED processedImages

\* The operation applied last, and the element it was applied to
TrackerOp(kind) == [NoEvent EXCEPT !.kind = kind]

DoMarkInFlight ==
  /\ \E img \in Imgs :
       /\ inFlight' = MarkInFlight(inFlight, img)
       /\ last' = [TrackerOp("markInFlight") EXCEPT !.outcome = img]
  /\ UNCHANGED <<processedImages, processedHashes, markedIdents, records>>
  /\ UNCHANGED <<qvars, pvars, nCalls, run, taskRun, avars, xvars>>

DoClearInFlight ==
  /\ \E img \in Imgs :
       /\ inFlight' = ClearInFlight(inFlight, img)
       /\ last' = [TrackerOp("clearInFlight") EXCEPT !.outcome = img]
  /\ UNCHANGED <<processedImages, processedHashes, markedIdents, records>>
  /\ UNCHANGED <<qvars, pvars, nCalls, run, taskRun, avars, xvars>>

DoMarkProcessed ==
  /\ \E img \in Imgs, d \in Descriptions :
       /\ MarkProcessed(img, d)
       /\ markedIdents' = markedIdents \cup {imgRes[img]}
       /\ records' = [records EXCEPT ![imgRes[img]] = d]
       /\ last' = [TrackerOp("markProcessed") EXCEPT !.outcome = img]
  /\ UNCHANGED <<qvars, pvars, nCalls, run, taskRun, avars, xvars>>

DoTrackerClear ==
  /\ TrackerClear
  /\ markedIdents' = {}
  /\ records' = [res \in Resources |-> NoRecord]
  /\ last' = TrackerOp("clear")
  /\ UNCHANGED <<qvars, pvars, nCalls, run, taskRun, avars, xvars>>

\* shouldReprocess(img): the WeakMap record of the element against its alt
ShouldReprocess(img) ==
  IF processedImages[img] = NoRecord THEN TRUE
  ELSE imgAlt[img] # processedImages[img]

\* The page or the user gives an element another alt (an element created
\* anew carries the alt it was created with)
AltChange(img, a) ==
  /\ a # imgAlt[img]
  /\ imgAlt' = [imgAlt EXCEPT ![img] = a]
  /\ UNCHANGED <<imgRes, imgTitle>>

PageSetsAlt ==
  /\ \E img \in Imgs, a \in Descriptions \cup {""} : AltChange(img, a)
  /\ UNCHANGED <<qvars, tvars, ovars, avars, xvars>>

TrackerSpecInit ==
  /\ QueueAtRest /\ PageInit /\ TrackerInit /\ OrchInit /\ ApiUnused
  /\ BatchUnused /\ ConvUnused /\ ProxyUnused

TrackerNext == DoMarkInFlight \/ DoClearInFlight \/ DoMarkProcessed
               \/ DoTrackerClear \/ PageChangesSrc \/ PageSetsAlt

TrackerSpec == TrackerSpecInit /\ [][TrackerNext]_vars

\* C16: isProcessed(img) is true exactly when the identity derived from
\* the current src and natural dimensions of img is in the processed set.
C16_IsProcessedExact ==
  \A img \in Imgs : IsProcessed(img) <=> GetImageHash(img) \in processedHashes

\* C17: tracker reset.  After clear() all tracking state is empty:
\* isProcessed and isInFlight are false for every image and getStats()
\* reports processedCount = 0 and inFlightCount = 0.
C17_TrackerReset ==
  last.kind = "clear" =>
    /\ \A img \in Imgs : ~IsProcessed(img) /\ ~IsInFlight(img)
    /\ TrackerStats = [processedCount |-> 0, inFlightCount |-> 0]

\* ------------------------------------------------------------------------
\* Further properties of the queue
\* ------------------------------------------------------------------------
\* C18: queue clear.  clear() removes every pending task; the thunk of a
\* removed task is never executed and its promise never settled; executing
\* tasks are unaffected, still settle and are counted; tasks added after
\* clear() are dispatched normally.
C18_QueueClear ==
  /\ [](\A t \in dropped : /\ promise[t] = "pending"
                           /\ t \notin Dispatched
                           /\ t \notin Pending)
  /\ [][dropped' # dropped =>
          /\ queue' = <<>>
          /\ dropped' = dropped \cup Pending
          /\ UNCHANGED <<active, promise, proc, stats, dispatchOrder>>]_vars
  /\ [][\A t \in Tasks :
          (promise[t] = "pending" /\ promise'[t] # "pending") =>
            stats'.success + stats'.failed = stats.success + stats.failed + 1]_vars
  /\ \A t \in Tasks :
       (dropped # {} /\ t \in Executing) ~> (promise[t] # "pending")
  /\ \A t \in Tasks :
       (dropped # {} /\ t \in Pending) ~> (t \in Dispatched \/ t \in dropped)

\* Task 1 was executing and task 2 pending when clear() was called; task 1
\* has settled, and task 3, added afterwards, has been dispatched
C18_Witness ==
  /\ dropped = {2}
  /\ promise[1] # "pending"
  /\ 3 \in Dispatched
  /\ promise[2] = "pending"

\* ------------------------------------------------------------------------
\* Converter: convertImageToBase64 and its three strategies
\* ------------------------------------------------------------------------
\* String literals of the converter
StrData ==
  <<"d", "a", "t", "a", ":">>
StrBase64 ==
  <<";", "b", "a", "s", "e", "6", "4", ",">>
StrImageSlash ==
  <<"i", "m", "a", "g", "e", "/">>
TypeJpeg ==
  <<"i", "m", "a", "g", "e", "/", "j", "p", "e", "g">>
TypePng ==
  <<"i", "m", "a", "g", "e", "/", "p", "n", "g">>
TypeHtml ==
  <<"t", "e", "x", "t", "/", "h", "t", "m", "l">>
BodyChars ==
  <<"Q", "U", "J", "D">>
MsgInvalidElement ==
  <<"I", "n", "v", "a", "l", "i", "d", " ", "i", "m", "a", "g", "e",
    " ", "e", "l", "e", "m", "e", "n", "t">>
MsgNotLoaded ==
  <<"I", "m", "a", "g", "e", " ", "n", "o", "t", " ", "l", "o", "a",
    "d", "e", "d", " ", "o", "r", " ", "b", "r", "o", "k", "e", "n">>
MsgNoContext ==
  <<"C", "o", "u", "l", "d", " ", "n", "o", "t", " ", "g", "e", "t",
    " ", "c", "a", "n", "v", "a", "s", " ", "c", "o", "n", "t", "e",
    "x", "t">>
MsgTainted ==
  <<"T", "h", "e", " ", "o", "p", "e", "r", "a", "t", "i", "o", "n",
    " ", "i", "s", " ", "i", "n", "s", "e", "c", "u", "r", "e", ".">>
MsgFetchFailed ==
  <<"F", "e", "t", "c", "h", " ", "f", "a", "i", "l", "e", "d", ":",
    " ">>
MsgFileReader ==
  <<"F", "i", "l", "e", "R", "e", "a", "d", "e", "r", " ", "f", "a",
    "i", "l", "e", "d">>
MsgBackgroundFailed ==
  <<"B", "a", "c", "k", "g", "r", "o", "u", "n", "d", " ", "c", "o",
    "n", "v", "e", "r", "s", "i", "o", "n", " ", "f", "a", "i", "l",
    "e", "d">>
MsgNotAnImage ==
  <<"N", "o", "t", " ", "a", "n", " ", "i", "m", "a", "g", "e", ":",
    " ", "t", "e", "x", "t", "/", "h", "t", "m", "l">>
MsgNoReceiver ==
  <<"C", "o", "u", "l", "d", " ", "n", "o", "t", " ", "e", "s", "t",
    "a", "b", "l", "i", "s", "h", " ", "c", "o", "n", "n", "e", "c",
    "t", "i", "o", "n", ".", " ", "R", "e", "c", "e", "i", "v", "i",
    "n", "g", " ", "e", "n", "d", " ", "d", "o", "e", "s", " ", "n",
    "o", "t", " ", "e", "x", "i", "s", "t", ".">>
MsgConversionFailed ==
  <<"I", "m", "a", "g", "e", " ", "c", "o", "n", "v", "e", "r", "s",
    "i", "o", "n", " ", "f", "a", "i", "l", "e", "d", ":", " ">>

\* str === pat in the place of str.startsWith(pat)
StartsWithWhole(str, pat) == str = pat

\* str.startsWith(pat)
StartsWith(str, pat) ==
  /\ Len(str) >= Len(pat)
  /\ SubSeq(str, 1, Len(pat)) = pat

\* A data URL: canvas.toDataURL(type), FileReader.readAsDataURL(blob)
DataUrl(type, body) == StrData \o type \o StrBase64 \o body

\* The elements convertImageToBase64 is called on: src empty, inline or
\* remote, the image loaded or not
InlineSrc == DataUrl(TypePng, BodyChars)
ConvImages == [src : {<<>>, InlineSrc, UrlAa}, loaded : BOOLEAN]

\* What the resource server answers to the direct fetch
DirectStatuses == {200, 204, 404, 500}
ContentTypes == {TypePng, TypeJpeg, TypeHtml}

\* What the background script answers to CONVERT_IMAGE: a reply with
\* success, a reply with an error, a reply without one, no reply object
ProxyReplies ==
  {[present |-> TRUE, success |-> TRUE, base64 |-> DataUrl(TypePng, BodyChars),
    error |-> <<>>],
   [present |-> TRUE, success |-> FALSE, base64 |-> <<>>, error |-> MsgNotAnImage],
   [present |-> TRUE, success |-> FALSE, base64 |-> <<>>, error |-> <<>>],
   [present |-> FALSE, success |-> FALSE, base64 |-> <<>>, error |-> <<>>]}

\* The nesting of the try blocks: the strategy tried when `name` has failed
StrategyAfterProxyFirst(name) ==
  CASE name = "canvas" -> "proxy"
    [] name = "proxy" -> "fetch"
    [] name = "fetch" -> "none"
StrategyAfter(name) ==
  CASE name = "canvas" -> "fetch"
    [] name = "fetch" -> "proxy"
    [] name = "proxy" -> "none"

Attempted(name) == [name |-> name, result |-> "pending", message |-> <<>>]
Settled(tr, result, message) ==
  [tr EXCEPT ![Len(tr)].result = result, ![Len(tr)].message = message]

\* A strategy resolves with a payload: convertImageToBase64 returns it
StrategyYields(name, value) ==
  /\ tried' = Settled(tried, "ok", <<>>)
  /\ convPc' = "returned"
  /\ convOut' = [kind |-> "payload", via |-> name, value |-> value]

\* A strategy rejects: the catch block tries the next one, and the
\* innermost catch block throws
StrategyFails(name, message) ==
  IF StrategyAfter(name) = "none"
  THEN /\ tried' = Settled(tried, "failed", message)
       /\ convPc' = "threw"
       /\ convOut' = [kind |-> "error", via |-> name,
                      value |-> MsgConversionFailed \o message]
  ELSE /\ tried' = Append(Settled(tried, "failed", message),
                          Attempted(StrategyAfter(name)))
       /\ convPc' = StrategyAfter(name)
       /\ UNCHANGED convOut

\* convertImageToBase64(img): validation, the inline shortcut, and the
\* call of the first strategy
ConvertImageToBase64 ==
  /\ convPc = "idle"
  /\ IF convImg.src = <<>>
     THEN /\ convPc' = "threw"
          /\ convOut' = [kind |-> "error", via |-> "", value |-> MsgInvalidElement]
          /\ UNCHANGED tried
     ELSE IF ~convImg.loaded
     THEN /\ convPc' = "threw"
          /\ convOut' = [kind |-> "error", via |-> "", value |-> MsgNotLoaded]
          /\ UNCHANGED tried
     ELSE IF StartsWith(convImg.src, StrData)
     THEN /\ convPc' = "returned"
          /\ convOut' = [kind |-> "payload", via |-> "inline", value |-> convImg.src]
          /\ UNCHANGED tried
     ELSE /\ convPc' = "canvas"
          /\ tried' = <<Attempted("canvas")>>
          /\ UNCHANGED convOut
  /\ UNCHANGED <<convImg, fetched>>

\* imageToBase64Canvas resolves with canvas.toDataURL('image/jpeg', 0.8)
CanvasRenders ==
  /\ convPc = "canvas"
  /\ StrategyYields("canvas", DataUrl(TypeJpeg, BodyChars))
  /\ UNCHANGED <<convImg, fetched>>

\* imageToBase64Canvas rejects: no 2d context, or a tainted canvas
CanvasFails(message) ==
  /\ convPc = "canvas"
  /\ StrategyFails("canvas", message)
  /\ UNCHANGED <<convImg, fetched>>

\* fetchImageAsBase64: fetch resolves with a response of that status and
\* content type; !response.ok throws, otherwise the blob is read into a
\* data URL of the blob's type
DirectFetchResponds(status, type) ==
  /\ convPc = "fetch"
  /\ fetched' = [status |-> status, type |-> type]
  /\ IF ~ResponseOk(status)
     THEN StrategyFails("fetch", MsgFetchFailed \o Decimal(status))
     ELSE StrategyYields("fetch", DataUrl(type, BodyChars))
  /\ UNCHANGED convImg

\* fetchImageAsBase64: fetch rejects (network, CORS)
DirectFetchRejects ==
  /\ convPc = "fetch"
  /\ StrategyFails("fetch", MsgNetworkError)
  /\ UNCHANGED <<convImg, fetched>>

\* fetchImageAsBase64: the FileReader fails on the blob of an ok response
FileReaderFails(status, type) ==
  /\ convPc = "fetch"
  /\ ResponseOk(status)
  /\ fetched' = [status |-> status, type |-> type]
  /\ StrategyFails("fetch", MsgFileReader)
  /\ UNCHANGED convImg

\* requestBackgroundConversion: the background script replies
ProxyAnswers(reply) ==
  /\ convPc = "proxy"
  /\ IF reply.present /\ reply.success
     THEN StrategyYields("proxy", reply.base64)
     ELSE StrategyFails("proxy", IF reply.present /\ reply.error # <<>>
                                 THEN reply.error ELSE MsgBackgroundFailed)
  /\ UNCHANGED <<convImg, fetched>>

\* requestBackgroundConversion: sendMessage rejects
ProxyRejects ==
  /\ convPc = "proxy"
  /\ StrategyFails("proxy", MsgNoReceiver)
  /\ UNCHANGED <<convImg, fetched>>

Convert == ConvertImageToBase64 /\ UNCHANGED <<qvars, pvars, tvars, ovars, avars, bvars, mvars>>

CanvasOk == CanvasRenders /\ UNCHANGED <<qvars, pvars, tvars, ovars, avars, bvars, mvars>>

CanvasThrows == /\ \E message \in {MsgNoContext, MsgTainted} : CanvasFails(message)
                /\ UNCHANGED <<qvars, pvars, tvars, ovars, avars, bvars, mvars>>

DirectResponds == /\ \E status \in DirectStatuses, type \in ContentTypes :
                       DirectFetchResponds(status, type)
                  /\ UNCHANGED <<qvars, pvars, tvars, ovars, avars, bvars, mvars>>

DirectRejects == DirectFetchRejects /\ UNCHANGED <<qvars, pvars, tvars, ovars, avars, bvars, mvars>>

ReaderFails == /\ \E status \in DirectStatuses, type \in ContentTypes :
                    FileReaderFails(status, type)
               /\ UNCHANGED <<qvars, pvars, tvars, ovars, avars, bvars, mvars>>

ProxyReplied == /\ \E reply \in ProxyReplies : ProxyAnswers(reply)
                /\ UNCHANGED <<qvars, pvars, tvars, ovars, avars, bvars, mvars>>

ProxyUnreachable == ProxyRejects /\ UNCHANGED <<qvars, pvars, tvars, ovars, avars, bvars, mvars>>

ConvInit ==
  /\ QueueAtRest /\ PageAtRest /\ TrackerInit /\ OrchInit /\ ApiUnused
  /\ BatchUnused /\ ProxyUnused
  /\ convImg \in ConvImages
  /\ convPc = "idle"
  /\ tried = <<>>
  /\ fetched = NoFetch
  /\ convOut = NoOut

ConvNext == Convert \/ CanvasOk \/ CanvasThrows \/ DirectResponds
            \/ DirectRejects \/ ReaderFails \/ ProxyReplied \/ ProxyUnreachable

ConvSpec == ConvInit /\ [][ConvNext]_vars


\* C19: converter fallback order.  For a non-inline image the strategies
\* are attempted in the order canvas, direct fetch, background proxy; a
\* strategy is attempted only after every earlier one has failed, the
\* payload of the first that succeeds is returned with no later strategy
\* attempted, and when all three fail the call throws 'Image conversion
\* failed'.
C19_FallbackOrder ==
  LET order == <<"canvas", "fetch", "proxy">>
      n == Len(tried)
  IN  /\ n <= 3
      /\ \A i \in 1..n : tried[i].name = order[i]
      /\ \A i \in 1..(n - 1) : tried[i].result = "failed"
      /\ convPc \in {"canvas", "fetch", "proxy"} =>
           /\ n >= 1
           /\ tried[n].name = convPc
           /\ tried[n].result = "pending"
      /\ (convPc = "returned" /\ convOut.via # "inline") =>
           /\ n >= 1
           /\ tried[n].result = "ok"
           /\ convOut.kind = "payload"
           /\ convOut.via = tried[n].name
      /\ (convPc = "threw" /\ convImg.src # <<>> /\ convImg.loaded) =>
           /\ n = 3
           /\ tried[3].result = "failed"
           /\ StartsWith(convOut.value, MsgConversionFailed)
           /\ convOut.value = MsgConversionFailed \o tried[3].message
      /\ (convPc # "idle" /\ convImg.src = UrlAa /\ convImg.loaded) => n >= 1

\* Canvas, direct fetch and proxy have failed in turn and the call threw
C19_Witness ==
  /\ convPc = "threw"
  /\ Len(tried) = 3
  /\ tried[1].message = MsgTainted
  /\ tried[2].message = MsgNetworkError
  /\ tried[3].message = MsgNotAnImage

\* C20: the direct fetch strategy fails for every response with a non-2xx
\* status and for every response whose content type is not an image type,
\* and the chain goes on to the background proxy.
C20_DirectFetchImagesOnly ==
  (/\ fetched # NoFetch
   /\ \/ fetched.status \notin 200..299
      \/ ~StartsWith(fetched.type, StrImageSlash))
  => /\ Len(tried) = 3
     /\ tried[2].name = "fetch"
     /\ tried[2].result = "failed"
     /\ convOut.via # "fetch"


\* C21: write-back.  alt and title of an element are written at most once,
\* only when a processSingleImage call on it succeeds, and both with the
\* description the queue returned; every other step leaves them as they
\* were.
C21_SuccessStep(r) ==
  /\ run[r].pc = "queued"
  /\ run'[r].pc = "done"
  /\ last'.kind = "ended"
  /\ last'.outcome = "success"

C21_WriteBackOnce ==
  [][/\ \A r \in Calls : C21_SuccessStep(r) =>
          LET img == run[r].img
          IN  /\ imgAlt[img] = ""
              /\ imgTitle[img] = ""
              /\ imgAlt'[img] \in Descriptions
              /\ imgTitle'[img] = imgAlt'[img]
              /\ \A other \in Imgs \ {img} :
                   /\ imgAlt'[other] = imgAlt[other]
                   /\ imgTitle'[other] = imgTitle[other]
     /\ (\A r \in Calls : ~C21_SuccessStep(r)) => UNCHANGED <<imgAlt, imgTitle>>]_vars


\* C22: shouldReprocess(img) is false exactly when a processed record
\* exists for the identity of img (its current src and dimensions) and
\* img.alt equals the description stored in that record.
C22_ShouldReprocessExact ==
  \A img \in Imgs :
    (~ShouldReprocess(img)) <=>
      (/\ records[imgRes[img]] # NoRecord
       /\ imgAlt[img] = records[imgRes[img]])


\* C23: tracker disjointness.  Between the steps of the orchestrator no
\* identity is both in processed and in inFlight, and no step puts an
\* identity that is in processed into inFlight.
C23_TrackerDisjoint ==
  /\ [](processedHashes \cap inFlight = {})
  /\ [][\A h \in processedHashes : h \notin inFlight => h \notin inFlight']_vars

\* A call on a processed identity was skipped while another identity is in
\* flight
C23_Witness ==
  /\ last.kind = "call"
  /\ last.outcome = "skipProcessed"
  /\ processedHashes # {}
  /\ inFlight # {}


\* ------------------------------------------------------------------------
\* Background script: handleMessage and its fetchImageAsBase64, and the
\* requestBackgroundConversion call of the content script that waits for
\* the reply
\* ------------------------------------------------------------------------

TypeConvertImage ==
  <<"C", "O", "N", "V", "E", "R", "T", "_", "I", "M", "A", "G", "E">>
TypeGetStats == <<"G", "E", "T", "_", "S", "T", "A", "T", "S">>
TypePing == <<"P", "I", "N", "G">>
MsgNoUrl ==
  <<"N", "o", " ", "U", "R", "L", " ", "p", "r", "o", "v", "i", "d", "e",
    "d">>
MsgHttp == <<"H", "T", "T", "P", " ">>
MsgNotAnImagePrefix ==
  <<"N", "o", "t", " ", "a", "n", " ", "i", "m", "a", "g", "e", ":", " ">>
MsgUnknownType ==
  <<"U", "n", "k", "n", "o", "w", "n", " ", "m", "e", "s", "s", "a", "g",
    "e", " ", "t", "y", "p", "e", ":", " ">>
MsgUndefined == <<"u", "n", "d", "e", "f", "i", "n", "e", "d">>
MsgNullHasNoType ==
  <<"m", "e", "s", "s", "a", "g", "e", " ", "i", "s", " ", "n", "u", "l",
    "l">>

\* The messages other parts of the extension can send: CONVERT_IMAGE with
\* and without a url, GET_STATS, a type the switch does not know, an object
\* without a type, and null
OtherMessages ==
  {[object |-> TRUE, type |-> TypeConvertImage, url |-> UrlC],
   [object |-> TRUE, type |-> TypeConvertImage, url |-> <<>>],
   [object |-> TRUE, type |-> TypeGetStats, url |-> <<>>],
   [object |-> TRUE, type |-> TypePing, url |-> <<>>],
   [object |-> TRUE, type |-> <<>>, url |-> <<>>],
   NullMessage}

\* The urls requestBackgroundConversion is called with: img.src, which
\* convertImageToBase64 has found non-empty and not inline
ProxyUrls == {UrlAa, UrlBB}

ReplyBase64(base64) ==
  [present |-> TRUE, keys |-> {"success", "base64"}, success |-> TRUE,
   base64 |-> base64, error |-> <<>>]
ReplyStats ==
  [present |-> TRUE, keys |-> {"success", "stats"}, success |-> TRUE,
   base64 |-> <<>>, error |-> <<>>]
ReplyError(message) ==
  [present |-> TRUE, keys |-> {"success", "error"}, success |-> FALSE,
   base64 |-> <<>>, error |-> message]

\* The catch block of handleMessage: resolve with the error's message
HandlerCatches(message) ==
  /\ bgReply' = ReplyError(message)
  /\ bgPc' = "resolved"

\* requestBackgroundConversion(url): sendMessage({type, url})
RequestBackgroundConversion(url) ==
  /\ reqPc = "idle"
  /\ bgPc = "idle"
  /\ reqPc' = "waiting"
  /\ bgMsg' = [object |-> TRUE, type |-> TypeConvertImage, url |-> url]
  /\ bgPc' = "received"
  /\ UNCHANGED <<bgFetched, bgReply, reqOut>>

\* Another sender's message reaches the listener
OtherSenderSends(message) ==
  /\ reqPc = "idle"
  /\ bgPc = "idle"
  /\ bgMsg' = message
  /\ bgPc' = "received"
  /\ reqPc' = "none"
  /\ UNCHANGED <<bgFetched, bgReply, reqOut>>

\* handleMessage up to its first await: the log line reads message.type
\* before the try block, then the switch
HandleMessage ==
  /\ bgPc = "received"
  /\ IF ~bgMsg.object
     THEN /\ bgPc' = "rejected"
          /\ bgReply' = [NoReply EXCEPT !.error = MsgNullHasNoType]
     ELSE IF bgMsg.type = TypeConvertImage
     THEN IF bgMsg.url = <<>>
          THEN HandlerCatches(MsgNoUrl)
          ELSE bgPc' = "fetch" /\ UNCHANGED bgReply
     ELSE IF bgMsg.type = TypeGetStats
     THEN bgReply' = ReplyStats /\ bgPc' = "resolved"
     ELSE HandlerCatches(MsgUnknownType \o
                         (IF bgMsg.type = <<>> THEN MsgUndefined ELSE bgMsg.type))
  /\ UNCHANGED <<bgMsg, bgFetched, reqPc, reqOut>>

\* fetchImageAsBase64 of the background script: fetch resolves; a response
\* that is not ok throws (statusText empty, as over HTTP/2)
BackgroundFetchResponds(status, type) ==
  /\ bgPc = "fetch"
  /\ bgFetched' = [status |-> status, type |-> type]
  /\ IF ~ResponseOk(status)
     THEN HandlerCatches(MsgHttp \o Decimal(status) \o <<":", " ">>)
     ELSE bgPc' = "blob" /\ UNCHANGED bgReply
  /\ UNCHANGED <<bgMsg, reqPc, reqOut>>

\* fetch rejects
BackgroundFetchRejects ==
  /\ bgPc = "fetch"
  /\ HandlerCatches(MsgNetworkError)
  /\ UNCHANGED <<bgMsg, bgFetched, reqPc, reqOut>>

\* response.blob() resolves: a blob whose type is not an image type throws
BackgroundBlobRead ==
  /\ bgPc = "blob"
  /\ IF ~StartsWith(bgFetched.type, StrImageSlash)
     THEN HandlerCatches(MsgNotAnImagePrefix \o bgFetched.type)
     ELSE bgPc' = "reader" /\ UNCHANGED bgReply
  /\ UNCHANGED <<bgMsg, bgFetched, reqPc, reqOut>>

\* blobToBase64 resolves with the data URL and handleMessage returns it
BackgroundReaderDone ==
  /\ bgPc = "reader"
  /\ bgReply' = ReplyBase64(DataUrl(bgFetched.type, BodyChars))
  /\ bgPc' = "resolved"
  /\ UNCHANGED <<bgMsg, bgFetched, reqPc, reqOut>>

\* blobToBase64 rejects
BackgroundReaderFails ==
  /\ bgPc = "reader"
  /\ HandlerCatches(MsgFileReader)
  /\ UNCHANGED <<bgMsg, bgFetched, reqPc, reqOut>>

\* The then and catch callbacks of requestBackgroundConversion
ReplyArrives ==
  /\ reqPc = "waiting"
  /\ bgPc \in {"resolved", "rejected"}
  /\ IF bgPc = "resolved" /\ bgReply.present /\ bgReply.success
     THEN /\ reqPc' = "resolved"
          /\ reqOut' = [kind |-> "payload", via |-> "proxy",
                        value |-> bgReply.base64]
     ELSE /\ reqPc' = "rejected"
          /\ reqOut' = [kind |-> "error", via |-> "proxy",
                        value |-> IF bgReply.error # <<>> THEN bgReply.error
                                  ELSE MsgBackgroundFailed]
  /\ UNCHANGED <<bgMsg, bgPc, bgFetched, bgReply>>

Requested == /\ \E url \in ProxyUrls : RequestBackgroundConversion(url)
             /\ UNCHANGED <<qvars, pvars, tvars, ovars, avars, bvars, cvars>>

OtherSends == /\ \E message \in OtherMessages : OtherSenderSends(message)
              /\ UNCHANGED <<qvars, pvars, tvars, ovars, avars, bvars, cvars>>

Handled == HandleMessage /\ UNCHANGED <<qvars, pvars, tvars, ovars, avars, bvars, cvars>>

BgResponds == /\ \E status \in DirectStatuses, type \in ContentTypes :
                   BackgroundFetchResponds(status, type)
              /\ UNCHANGED <<qvars, pvars, tvars, ovars, avars, bvars, cvars>>

BgRejects == BackgroundFetchRejects /\ UNCHANGED <<qvars, pvars, tvars, ovars, avars, bvars, cvars>>

BgBlob == BackgroundBlobRead /\ UNCHANGED <<qvars, pvars, tvars, ovars, avars, bvars, cvars>>

BgReaderOk == BackgroundReaderDone /\ UNCHANGED <<qvars, pvars, tvars, ovars, avars, bvars, cvars>>

BgReaderErr == BackgroundReaderFails /\ UNCHANGED <<qvars, pvars, tvars, ovars, avars, bvars, cvars>>

Replied == ReplyArrives /\ UNCHANGED <<qvars, pvars, tvars, ovars, avars, bvars, cvars>>

ProxyInit ==
  /\ QueueAtRest /\ PageAtRest /\ TrackerInit /\ OrchInit /\ ApiUnused
  /\ BatchUnused /\ ConvUnused
  /\ bgMsg = NullMessage
  /\ bgPc = "idle"
  /\ bgFetched = NoFetch
  /\ bgReply = NoReply
  /\ reqPc = "idle"
  /\ reqOut = NoOut

ProxyNext == Requested \/ OtherSends \/ Handled \/ BgResponds \/ BgRejects
             \/ BgBlob \/ BgReaderOk \/ BgReaderErr \/ Replied

ProxySpec == ProxyInit /\ [][ProxyNext]_vars


\* C24: privileged-proxy protocol.  handleMessage never rejects and
\* resolves with {success: true, base64} or {success: false, error}; a
\* CONVERT_IMAGE request without a url, a fetch that is not 2xx, a body
\* that is not an image and an unknown message type yield {success: false,
\* error}; requestBackgroundConversion rejects on every {success: false}
\* reply.
C24_ProxyProtocol ==
  /\ bgPc # "rejected"
  /\ bgPc = "resolved" =>
       \/ bgReply.success /\ bgReply.keys = {"success", "base64"}
       \/ ~bgReply.success /\ bgReply.keys = {"success", "error"}
  /\ (/\ bgPc = "resolved"
      /\ \/ bgMsg.type = TypeConvertImage /\ bgMsg.url = <<>>
         \/ bgFetched # NoFetch /\ ~ResponseOk(bgFetched.status)
         \/ bgFetched # NoFetch /\ ~StartsWith(bgFetched.type, StrImageSlash)
         \/ bgMsg.type \notin {TypeConvertImage, TypeGetStats})
     => ~bgReply.success /\ bgReply.keys = {"success", "error"}
  /\ (reqPc \in {"resolved", "rejected"} /\ ~bgReply.success) =>
       reqPc = "rejected"


\* C25: response validation.  sendWithTimeout returns only for a 2xx
\* response whose body is an object with a string description; a 2xx
\* response with any other body fails with 'Invalid API response format',
\* and that failure ends sendImageToAPI at once, with no backoff sleep and
\* no further attempt.
C25_ResponseValidation ==
  /\ apiPc = "resolved" =>
       /\ ResponseOk(response.status)
       /\ response.description \in Descriptions
       /\ apiResult = response.description
  /\ lastCause.kind \in {"shape", "syntax"} =>
       /\ lastError = MsgInvalidFormat
       /\ apiPc = "rejected"
       /\ apiResult = MsgInvalidFormat
       /\ backoffTimer = NoTimer


\* C26: tracker operation idempotence.  Applying markInFlight,
\* clearInFlight or markProcessed to an image a second time leaves the
\* membership of inFlight and of processed, and the counts of getStats(),
\* as the first application left them; after markProcessed the identity of
\* the image is not in inFlight.
C26_TrackerIdempotence ==
  [][\A img \in Imgs :
       LET hash == GetImageHash(img)
           StatsOf(ph, inf) == [processedCount |-> Cardinality(ph),
                                inFlightCount |-> Cardinality(inf)]
           \* the step is that operation on img
           Applied(kind) == /\ last'.kind = kind
                            /\ last'.outcome = img
                            /\ UNCHANGED pvars
       IN  /\ Applied("markInFlight") =>
                /\ hash \in inFlight'
                /\ MarkInFlight(inFlight', img) = inFlight'
                /\ StatsOf(processedHashes', MarkInFlight(inFlight', img))
                     = TrackerStats'
           /\ Applied("clearInFlight") =>
                /\ hash \notin inFlight'
                /\ ClearInFlight(inFlight', img) = inFlight'
                /\ StatsOf(processedHashes', ClearInFlight(inFlight', img))
                     = TrackerStats'
           /\ Applied("markProcessed") =>
                /\ hash \in processedHashes'
                /\ hash \notin inFlight'
                /\ ClearInFlight(inFlight', img) = inFlight'
                /\ StatsOf(processedHashes' \cup {hash},
                           ClearInFlight(inFlight', img)) = TrackerStats']_vars

\* markProcessed has been applied to an element whose identity was in
\* flight, while another identity stays in flight
C26_Witness ==
  /\ last.kind = "markProcessed"
  /\ processedHashes # {}
  /\ inFlight # {}
  /\ processedHashes \cap inFlight = {}


\* C27: inline shortcut.  For an element whose src is a data: URL
\* convertImageToBase64 attempts no strategy (no canvas, no fetch, no
\* message to the background script), and for a loaded element it returns
\* that src unchanged.
C27_InlineShortcut ==
  (convImg.src = InlineSrc /\ convPc # "idle") =>
    /\ tried = <<>>
    /\ fetched = NoFetch
    /\ convPc \notin {"canvas", "fetch", "proxy"}
    /\ convImg.loaded =>
         /\ convPc = "returned"
         /\ convOut.kind = "payload"
         /\ convOut.value = convImg.src

\* The call on a loaded element with a data: src has returned
C27_Witness ==
  /\ convImg.src = InlineSrc
  /\ convImg.loaded
  /\ convPc = "returned"
  /\ convOut.via = "inline"


\* C28: pacing step.  The step in which the thunk of t settles releases the
\* slot; if tasks are pending at that moment it dispatches nothing and the
\* process() call of t sleeps delayMs before its follow-up process(), and
\* if none is pending the follow-up process() runs in that same step.  The
\* follow-up process() of a sleeping call runs only once delayMs has passed.
C28_SettleStep(t) == proc[t].st = "task" /\ proc'[t].st # "task"

C28_PacingStep ==
  /\ [][\A t \in Tasks : C28_SettleStep(t) =>
          /\ active' = active - 1
          /\ IF queue # <<>>
             THEN /\ proc'[t] = [st |-> "sleep", timer |-> BATCH_DELAY_MS]
                  /\ queue' = queue
                  /\ dispatchOrder' = dispatchOrder
             ELSE /\ proc'[t] = [st |-> "done", timer |-> NoTimer]
                  /\ queue' = <<>>]_vars
  /\ [][\A t \in Tasks : (proc[t].st = "sleep" /\ proc'[t].st # "sleep") =>
          /\ proc[t].timer = 0
          /\ proc'[t].st = "done"]_vars

\* The slot is released and the pacing sleep of the call that completed a
\* task has run its delayMs, while a task is still pending
C28_Witness ==
  /\ active = 0
  /\ queue # <<>>
  /\ \E t \in Tasks : /\ proc[t] = [st |-> "sleep", timer |-> 0]
                      /\ promise[t] # "pending"


\* C29: queue accounting.  As long as clear() has discarded nothing, in
\* every state total = success + failed + queued + active, queued being
\* the length of the pending sequence and active the executing count.
C29_QueueAccounting ==
  dropped = {} =>
    /\ GetStats.total
         = GetStats.success + GetStats.failed + GetStats.queued + GetStats.active
    /\ GetStats.queued = Len(queue)
    /\ GetStats.active = Cardinality(Executing)
    /\ GetStats.total = nAdded

\* One task settled, one executing, one pending
C29_Witness ==
  /\ dropped = {}
  /\ stats.success + stats.failed = 1
  /\ active = 1
  /\ Len(queue) = 1
  /\ stats.total = 3


\* C30: no stranded task.  While tasks are pending and a slot is free, the
\* pacing sleep of some process() call is outstanding; and, thunks settling
\* and timers firing, every task passed to add() is dispatched and its
\* promise settled, unless clear() discards it.
C30_NoStrandedTask ==
  /\ []((queue # <<>> /\ active < concurrency) =>
          \E t \in Tasks : proc[t].st = "sleep")
  /\ \A t \in Tasks :
       (promise[t] = "pending") ~>
         (\/ t \in Dispatched /\ promise[t] \in {"resolved", "rejected"}
          \/ t \in dropped)

\* Every task has been added, none discarded; one is pending with the
\* only slot free, and the pacing sleep that will dispatch it is running
C30_Witness ==
  /\ concurrency = 1
  /\ nAdded = MaxTasks
  /\ dropped = {}
  /\ active < concurrency
  /\ Len(queue) = 1
  /\ Cardinality({t \in Tasks : proc[t].st = "sleep"}) = 1


\* C31: identity stability during processing.  The step that ends a
\* processSingleImage call which executed markInFlight removes from inFlight
\* the identity that call inserted and no other, and on success records
\* that identity as processed and no other, whatever the page did to the
\* element's src or dimensions while the call was suspended.
C31_EndStep(r) ==
  /\ run[r].pc \in {"convert", "queued"}
  /\ run'[r].pc = "done"

C31_IdentityStable ==
  [][\A r \in Calls : C31_EndStep(r) =>
       /\ run[r].marked \notin inFlight'
       /\ inFlight \ inFlight' \subseteq {run[r].marked}
       /\ IF last'.outcome = "success"
          THEN processedHashes' = processedHashes \cup {run[r].marked}
          ELSE processedHashes' = processedHashes]_vars


\* C32: re-eligibility after failure.  When a processSingleImage call ends
\* by a conversion failure, a description failure or the size skip, its
\* image is neither processed nor in flight, so that the next call on it
\* passes both checks and converts again.
C32_FailureStep(r) ==
  /\ run[r].pc \in {"convert", "queued"}
  /\ run'[r].pc = "done"
  /\ last'.outcome \in {"convFailed", "descFailed", "skipSize"}

C32_ReEligible ==
  [][\A r \in Calls : C32_FailureStep(r) =>
       LET img == run[r].img
           hash == HashOf[imgRes'[img]]
       IN  /\ processedImages'[img] = NoRecord
           /\ hash \notin processedHashes'
           /\ hash \notin inFlight']_vars

=============================================================================
